---- MODULE Spec2Model ----
(***************************************************************************)
(* A model of the FlowState real-time pipeline:                            *)
(*   - RealtimeEEGProcessor / EEGBuffer   (backend/eeg/realtime_processor) *)
(*   - FlowStateDetector: construction, processing loop, classification    *)
(*                                        (backend/flow_state_detector)    *)
(*   - AdaptiveAudioEngine adaptation     (backend/adaptive_audio_engine)  *)
(*   - FlowStateStabilitySystem  (backend/core/algorithms/flow)            *)
(*   - HealthDataSyncService     (backend/core/inputs/health/sync_service) *)
(*   - EEGProcessor monitoring   (backend/eeg)                             *)
(* The components share no state, so each is checked under its own         *)
(* specification (SpecBuffer, SpecArtifact, SpecLoop, SpecAudio,           *)
(* SpecRanges, SpecClassify, SpecStability, SpecSteady, SpecPipeline,      *)
(* SpecConstruct, SpecEngines, SpecMasked, SpecSync, SpecMonitor); Spec is *)
(* their composition.                                                      *)
(*                                                                         *)
(* Numbers: EEG samples are integers (microvolts); band powers are         *)
(* in 1/100 (percent), scores in 1/1000; frequencies are in 1/1000 Hz.     *)
(***************************************************************************)
EXTENDS Integers, Sequences, FiniteSets, TLC

VARIABLES
    \* ---- RealtimeEEGProcessor ----
    sampling_rate,      \* self.sampling_rate
    buffer_size,        \* self.buffer_size = self.buffer.max_size
    buffer_data,        \* self.buffer.data (deque of chunks, oldest first)
    filtered_data,      \* self.buffer.filtered_data (chunk it was computed from, 0 = {})
    pushed,             \* number of chunks handed to process_chunk so far
    features_result,    \* outcome of the last extract_features call
    \* ---- _detect_artifacts applied to one epoch ----
    epoch,              \* the data array handed to _detect_artifacts
    mask,               \* the boolean mask it returned (<<>> before the call)
    artifact_pc,        \* "idle" | "input" | "masked"
    \* ---- FlowStateDetector ----
    data_stream,        \* self.data_stream (asyncio.Queue), oldest first
    put_count,          \* chunks put on data_stream so far
    processing_task,    \* self.processing_task: "None" | "task"
    loop_pc,            \* position of _processing_loop
    must_cancel,        \* Task.cancel() requested and not yet delivered
    chunk,              \* the loop's local variable chunk (0 = none)
    feature_history,    \* self._feature_history
    published,          \* metrics handed out by _publish_metrics, in order
    stop_pc,            \* position of stop_processing
    detector_error,     \* exception raised by the last start/stop call
    \* ---- AdaptiveAudioEngine ----
    current_session,    \* self.current_session (NoSession = None)
    coupling_strength,  \* self.phase_state.coupling_strength (permille)
    flow_ranges,        \* FREQUENCY_RANGES['flow'] (class attribute)
    user_responses,     \* self.user_responses
    updates,            \* number of flow updates so far
    audio_op,           \* the last engine operation
    stream,             \* self.stream: "None" or "open"
    open_streams,       \* output streams started and not yet closed
    \* ---- FlowStateDetector classification ----
    history_size,       \* len(self._feature_history) at the call
    clf_op,             \* "init" | "detect" | "recommend" | "extract"
    clf_state,          \* flow_state argument / classification result
    clf_features,       \* the features dictionary of the call
    metrics,            \* FlowMetrics returned by detect_flow_state
    recommendations,    \* list returned by _generate_recommendations
    \* ---- FlowStateStabilitySystem ----
    flow_history,       \* self.flow_history
    challenge_history,  \* self.challenge_history
    current_challenge,  \* self.current_challenge (permille)
    stability_mode,     \* branch taken by the last maintain_stability
    stability_metrics,  \* StabilityMetrics of the last maintain_stability
    epoch_state,        \* the detector's classification of that epoch
    \* ---- RealtimeEEGProcessor.run_pipeline ----
    pipe_stream,        \* the data_stream argument (asyncio.Queue), oldest first
    pipe_put,           \* chunks put on it so far
    pipe_taken,         \* ids of the chunks the loop has taken, in order
    pipe_errors,        \* errors logged by the loop, in order
    pipe_pc,            \* "running" | "stopped"
    \* ---- construction of a FlowStateDetector ----
    ctor_args,          \* arguments of the constructor call (NoneValue before it)
    ctor_error,         \* exception that left the constructor, "none" if none
    detector,           \* the constructed object (NoneValue if there is none)
    steady_chunks,      \* chunks processed by the constructed detector
    steady_error,       \* error raised while processing them, "none" if none
    \* ---- two AdaptiveAudioEngine instances ----
    engines,            \* per instance: current_session and coupling strength
    class_ranges,       \* AdaptiveAudioEngine.FREQUENCY_RANGES['flow']
    engine_updates,     \* update calls so far, over both instances
    engine_op,          \* the last call: which instance, which method
    \* ---- process_chunk on the samples of a chunk ----
    sample_buffer,      \* self.buffer.data, each entry a chunk of samples
    clean_mask,         \* clean_mask of the last chunk
    band_filtered,      \* self.buffer.filtered_data, per band
    \* ---- HealthDataSyncService.sync_all_data ----
    sync_pc,            \* "idle" | "running" | "returned"
    sync_calls,         \* calls of sync_all_data so far
    sync_pending,       \* providers the loop has still to visit
    results,            \* the results dictionary
    sync_returned,      \* per visited provider: did its four syncs all return True
    sync_last,          \* what the four syncs of the last visited provider returned
    \* ---- EEGProcessor monitoring ----
    processing,         \* self._processing
    monitor_loops,      \* per loop: "callback" | "sleep" | "ended"
    monitor_starts,     \* calls of start_monitoring so far
    monitor_chunks,     \* chunks pulled by the loops so far
    monitor_op          \* the last step

bufferVars   == <<sampling_rate, buffer_size, buffer_data, filtered_data, pushed,
                  features_result>>
artifactVars == <<epoch, mask, artifact_pc>>
loopVars     == <<data_stream, put_count, processing_task, loop_pc, must_cancel,
                  chunk, feature_history, published, stop_pc, detector_error>>
audioVars    == <<current_session, coupling_strength, flow_ranges,
                  user_responses, updates, audio_op, stream, open_streams>>
classifyVars == <<history_size, clf_op, clf_state, clf_features, metrics,
                  recommendations>>
stabilityVars == <<flow_history, challenge_history, current_challenge,
                   stability_mode, stability_metrics, epoch_state>>
pipelineVars == <<pipe_stream, pipe_put, pipe_taken, pipe_errors, pipe_pc>>
constructVars == <<ctor_args, ctor_error, detector, steady_chunks, steady_error>>
enginesVars == <<engines, class_ranges, engine_updates, engine_op>>
maskedVars == <<sample_buffer, clean_mask, band_filtered>>
syncVars == <<sync_pc, sync_calls, sync_pending, results, sync_returned,
              sync_last>>
monitorVars == <<processing, monitor_loops, monitor_starts, monitor_chunks,
                 monitor_op>>
vars == <<bufferVars, artifactVars, loopVars, audioVars, classifyVars,
          stabilityVars, pipelineVars, constructVars, enginesVars,
          maskedVars, syncVars, monitorVars>>

\* What an action of one component leaves alone: the other components.
bufferFrame ==
    <<artifactVars, loopVars, audioVars,
      classifyVars, stabilityVars, pipelineVars, constructVars, enginesVars,
      maskedVars,
      syncVars,
      monitorVars>>
artifactFrame ==
    <<bufferVars, loopVars, audioVars,
      classifyVars, stabilityVars, pipelineVars, constructVars, enginesVars,
      maskedVars,
      syncVars,
      monitorVars>>
loopFrame ==
    <<bufferVars, artifactVars, audioVars,
      classifyVars, stabilityVars, pipelineVars, constructVars, enginesVars,
      maskedVars,
      syncVars,
      monitorVars>>
audioFrame ==
    <<bufferVars, artifactVars, loopVars,
      classifyVars, stabilityVars, pipelineVars, constructVars, enginesVars,
      maskedVars,
      syncVars,
      monitorVars>>
classifyFrame ==
    <<bufferVars, artifactVars, loopVars,
      audioVars, stabilityVars, pipelineVars, constructVars, enginesVars,
      maskedVars,
      syncVars,
      monitorVars>>
stabilityFrame ==
    <<bufferVars, artifactVars, loopVars,
      audioVars, classifyVars, pipelineVars, constructVars, enginesVars,
      maskedVars,
      syncVars,
      monitorVars>>
constructFrame ==
    <<bufferVars, artifactVars, loopVars,
      audioVars, classifyVars, stabilityVars, pipelineVars, enginesVars,
      maskedVars,
      syncVars,
      monitorVars>>
enginesFrame ==
    <<bufferVars, artifactVars, loopVars, audioVars,
      classifyVars, stabilityVars, pipelineVars, constructVars,
      maskedVars,
      syncVars,
      monitorVars>>
maskedFrame ==
    <<bufferVars, artifactVars, loopVars, audioVars,
      classifyVars, stabilityVars, pipelineVars, constructVars,
      enginesVars,
      syncVars,
      monitorVars>>
syncFrame ==
    <<bufferVars, artifactVars, loopVars, audioVars,
      classifyVars, stabilityVars, pipelineVars, constructVars,
      enginesVars, maskedVars,
      monitorVars>>
monitorFrame ==
    <<bufferVars, artifactVars, loopVars, audioVars,
      classifyVars, stabilityVars, pipelineVars, constructVars,
      enginesVars, maskedVars, syncVars>>
\* run_pipeline works on the buffer of its processor.
pipelineBufferFrame ==
    <<artifactVars, loopVars, audioVars,
      classifyVars, stabilityVars, constructVars, enginesVars,
      maskedVars,
      syncVars,
      monitorVars>>

Abs(x) == IF x < 0 THEN -x ELSE x
Min(a, b) == IF a < b THEN a ELSE b
Max(a, b) == IF a > b THEN a ELSE b

(***************************************************************************)
(*                       RealtimeEEGProcessor buffer                       *)
(***************************************************************************)

\* Bounds of the buffer model.
MaxPushes == 2050

\* Sampling rates a processor is built with (the gamma cutoff of 100 Hz lies
\* below their Nyquist frequency); buffer_duration keeps its default.
SamplingRates == {256, 512}
DefaultBufferDuration == 4

\* EEGBuffer.data: field(default_factory=lambda: deque(maxlen=2048))
DequeMaxLen == 2048

\* RealtimeEEGProcessor.__init__: int(buffer_duration * sampling_rate)
BufferSizeOf(rate, duration) == duration * rate

\* deque.append on a deque with maxlen: the oldest entry is dropped when full.
DequeAppend(d, x) ==
    IF Len(d) >= DequeMaxLen THEN Append(Tail(d), x) ELSE Append(d, x)

InitBufferVars ==
    /\ sampling_rate \in SamplingRates
    /\ buffer_size = BufferSizeOf(sampling_rate, DefaultBufferDuration)
    /\ buffer_data = <<>>
    /\ filtered_data = 0
    /\ pushed = 0
    /\ features_result = "none"

\* process_chunk(data): the line-noise filtered chunk is appended to the
\* buffer and the band-filtered chunk replaces filtered_data.  A chunk is
\* identified by its arrival number.
process_chunk ==
    /\ pushed < MaxPushes
    /\ pushed' = pushed + 1
    /\ buffer_data' = DequeAppend(buffer_data, pushed + 1)
    /\ filtered_data' = pushed + 1
    /\ features_result' = "none"
    /\ UNCHANGED <<sampling_rate, buffer_size>>
    /\ UNCHANGED bufferFrame

\* A variant of extract_features that refuses a buffer holding less than one
\* full epoch of `need` entries.
ExtractFeaturesOutcome_Raising(d, need) ==
    IF Len(d) < need THEN "InsufficientDataError" ELSE "features"

\* extract_features(): the outcome of the call on a buffer `d`:
\* "empty_dict" is the early return {} of an empty buffer; "features" means
\* the guard was passed and the feature computation was entered.  The number
\* `need` of entries of a full epoch is not looked at.
ExtractFeaturesOutcome(d, need) ==
    IF Len(d) = 0 THEN "empty_dict" ELSE "features"

extract_features ==
    /\ features_result' = ExtractFeaturesOutcome(buffer_data, buffer_size)
    /\ UNCHANGED <<sampling_rate, buffer_size, buffer_data, filtered_data, pushed>>
    /\ UNCHANGED bufferFrame

NextBuffer ==
    \/ process_chunk
    \/ extract_features

(***************************************************************************)
(*                 RealtimeEEGProcessor._detect_artifacts                  *)
(***************************************************************************)

\* Bounds of the epochs handed to _detect_artifacts.
MaxEpochLen == 103
MaxPrefix == 3

\* ArtifactParams defaults.
amplitude_threshold == 100
gradient_threshold == 10
flatline_duration == 100

\* Sample values (microvolts) the epochs are built from.
SampleValues == {-100, 0, 50, 99, 100, 101}
ShortValues == {0, 9, 10, 11, 100, 101}

\* An epoch of n samples of value v whose first p samples alternate v+5, v.
PatternEpoch(n, v, p) ==
    [i \in 1..n |-> IF i <= p /\ i % 2 = 1 THEN v + 5 ELSE v]

EpochInputs ==
    {PatternEpoch(n, v, p) : n \in 1..MaxEpochLen, v \in SampleValues, p \in 0..MaxPrefix}
    \cup {<<a, b>> : a \in ShortValues, b \in ShortValues}

RECURSIVE SumRange(_, _, _)
SumRange(data, lo, hi) ==
    IF lo > hi THEN 0 ELSE data[lo] + SumRange(data, lo + 1, hi)

RECURSIVE SumSqRange(_, _, _)
SumSqRange(data, lo, hi) ==
    IF lo > hi THEN 0 ELSE data[lo] * data[lo] + SumSqRange(data, lo + 1, hi)

\* np.std(data[lo..hi]) < 0.1, i.e. variance < 0.01, for integer samples:
\* w*sum(x^2) - sum(x)^2 < w^2 / 100, with w the window length.
StdBelowTenth(data, lo, hi) ==
    LET w == hi - lo + 1
        s == SumRange(data, lo, hi)
        q == SumSqRange(data, lo, hi)
    IN  w * q - s * s < (w * w + 99) \div 100

\* np.diff(data, prepend=data[0])[i]
Gradient(data, i) == IF i = 1 THEN 0 ELSE data[i] - data[i - 1]

\* The window starts of the flatline loop, range(len(data) - flatline_duration),
\* as 1-based positions.
FlatlineStarts(data) == 1..(Len(data) - flatline_duration)

\* _detect_artifacts(data): TRUE marks a clean sample.
detect_artifacts(data) ==
    LET flat == {s \in FlatlineStarts(data) :
                    StdBelowTenth(data, s, s + flatline_duration - 1)}
    IN  [i \in 1..Len(data) |->
            /\ Abs(data[i]) < amplitude_threshold
            /\ Abs(Gradient(data, i)) < gradient_threshold
            /\ ~ \E s \in flat : s <= i /\ i <= s + flatline_duration - 1]

\* Number of clean samples of a mask; np.mean(mask) is CleanCount / Len.
CleanCount(m) == Cardinality({i \in 1..Len(m) : m[i]})

\* extract_features: 'signal_quality': np.mean(self._detect_artifacts(data)),
\* in permille.
signal_quality(m) == (1000 * CleanCount(m)) \div Len(m)

InitArtifactVars ==
    /\ epoch = <<0>>
    /\ mask = <<>>
    /\ artifact_pc = "idle"

\* An epoch is handed to _detect_artifacts.
LoadEpoch ==
    /\ artifact_pc = "idle"
    /\ epoch' \in EpochInputs
    /\ mask' = <<>>
    /\ artifact_pc' = "input"
    /\ UNCHANGED artifactFrame

DetectArtifacts ==
    /\ artifact_pc = "input"
    /\ mask' = detect_artifacts(epoch)
    /\ artifact_pc' = "masked"
    /\ UNCHANGED epoch
    /\ UNCHANGED artifactFrame

NextArtifact ==
    \/ LoadEpoch
    \/ DetectArtifacts

(***************************************************************************)
(*                  FlowStateDetector: the processing loop                 *)
(***************************************************************************)

\* Bound of the chunks the device puts on data_stream.
MaxChunks == 4

\* Feature history window of _update_feature_history.
FeatureHistoryMax == 100

\* A chunk on the stream: its arrival number and whether it is well formed.
Chunk(n, ok) == [id |-> n, valid |-> ok]

\* A stream that hands out the newest item first.
NextChunk_Newest(q) == q[Len(q)]

\* chunk = await self.data_stream.get(): asyncio.Queue hands out the oldest item.
NextChunk(q) == Head(q)

\* self._validate_data(chunk)
validate_data(c) == c.valid

\* self._update_feature_history(features): bounded append, oldest evicted.
update_feature_history(h, f) ==
    IF Len(h) >= FeatureHistoryMax THEN Append(Tail(h), f) ELSE Append(h, f)

\* The effect of _publish_metrics(metrics) once it completes.
publish_metrics(p, m) == Append(p, m)

InitLoopVars ==
    /\ data_stream = <<>>
    /\ put_count = 0
    /\ processing_task = "None"
    /\ loop_pc = "none"
    /\ must_cancel = FALSE
    /\ chunk = 0
    /\ feature_history = <<>>
    /\ published = <<>>
    /\ stop_pc = "idle"
    /\ detector_error = "none"

TaskFinished == loop_pc \in {"done", "cancelled"}

\* The device collaborator: data_stream.put(chunk).
PutChunk ==
    /\ put_count < MaxChunks
    /\ \E ok \in BOOLEAN :
          data_stream' = Append(data_stream, Chunk(put_count + 1, ok))
    /\ put_count' = put_count + 1
    /\ UNCHANGED <<processing_task, loop_pc, must_cancel, chunk, feature_history,
                   published, stop_pc, detector_error>>
    /\ UNCHANGED loopFrame

\* A guard that lets every start through.
StartAllowed_Always(task) == TRUE

\* start_processing: `if self.processing_task is not None: raise RuntimeError`
StartAllowed(task) == task = "None"

\* start_processing()
start_processing ==
    /\ IF ~StartAllowed(processing_task)
       THEN /\ detector_error' = "RuntimeError"
            /\ UNCHANGED <<processing_task, loop_pc>>
       ELSE /\ processing_task' = "task"
            /\ loop_pc' = "created"
            /\ detector_error' = "none"
    /\ UNCHANGED <<data_stream, put_count, must_cancel, chunk, feature_history,
                   published, stop_pc>>
    /\ UNCHANGED loopFrame

\* stop_processing() up to its await: the guard, then Task.cancel().
stop_processing_call ==
    /\ stop_pc = "idle"
    /\ IF processing_task = "None"
       THEN /\ detector_error' = "RuntimeError"
            /\ UNCHANGED <<must_cancel, stop_pc>>
       ELSE /\ must_cancel' = (must_cancel \/ ~TaskFinished)
            /\ stop_pc' = "awaiting"
            /\ detector_error' = "none"
    /\ UNCHANGED <<data_stream, put_count, processing_task, loop_pc, chunk,
                   feature_history, published>>
    /\ UNCHANGED loopFrame

\* stop_processing() after `await self.processing_task`: a task that returned
\* lets it clear the slot; a cancelled task re-raises CancelledError in it.
stop_processing_resume ==
    /\ stop_pc = "awaiting"
    /\ TaskFinished
    /\ stop_pc' = "idle"
    /\ IF loop_pc = "done"
       THEN /\ processing_task' = "None"
            /\ loop_pc' = "none"
            /\ detector_error' = "none"
       ELSE /\ detector_error' = "CancelledError"
            /\ UNCHANGED <<processing_task, loop_pc>>
    /\ UNCHANGED <<data_stream, put_count, must_cancel, chunk, feature_history,
                   published>>
    /\ UNCHANGED loopFrame

\* First step of the task: a cancellation requested before the coroutine
\* started is raised before its try block is entered.
LoopStart ==
    /\ loop_pc = "created"
    /\ IF must_cancel
       THEN loop_pc' = "cancelled" /\ must_cancel' = FALSE
       ELSE loop_pc' = "get" /\ UNCHANGED must_cancel
    /\ UNCHANGED <<data_stream, put_count, processing_task, chunk, feature_history,
                   published, stop_pc, detector_error>>
    /\ UNCHANGED loopFrame

\* One iteration of `while True` from the get to the await of
\* _publish_metrics, which either completes at once or suspends.
LoopEpoch ==
    /\ loop_pc = "get"
    /\ ~must_cancel
    /\ data_stream # <<>>
    /\ LET c == NextChunk(data_stream) IN
        /\ data_stream' = SelectSeq(data_stream, LAMBDA x : x # c)
        /\ IF ~validate_data(c)
           THEN UNCHANGED <<loop_pc, chunk, feature_history, published>>
           ELSE /\ feature_history' = update_feature_history(feature_history, c.id)
                /\ \/ /\ published' = publish_metrics(published, c.id)
                      /\ UNCHANGED <<loop_pc, chunk>>
                   \/ /\ loop_pc' = "publish"
                      /\ chunk' = c.id
                      /\ UNCHANGED published
    /\ UNCHANGED <<put_count, processing_task, must_cancel, stop_pc, detector_error>>
    /\ UNCHANGED loopFrame

\* The suspended _publish_metrics completes.
LoopPublished ==
    /\ loop_pc = "publish"
    /\ ~must_cancel
    /\ published' = publish_metrics(published, chunk)
    /\ loop_pc' = "get"
    /\ chunk' = 0
    /\ UNCHANGED <<data_stream, put_count, processing_task, must_cancel,
                   feature_history, stop_pc, detector_error>>
    /\ UNCHANGED loopFrame

\* CancelledError is raised at the await the loop is suspended in and caught
\* by `except asyncio.CancelledError: pass`: the loop returns.
LoopCancelled ==
    /\ loop_pc \in {"get", "publish"}
    /\ must_cancel
    /\ must_cancel' = FALSE
    /\ loop_pc' = "done"
    /\ UNCHANGED <<data_stream, put_count, processing_task, chunk, feature_history,
                   published, stop_pc, detector_error>>
    /\ UNCHANGED loopFrame

NextLoop ==
    \/ PutChunk
    \/ start_processing
    \/ stop_processing_call
    \/ stop_processing_resume
    \/ LoopStart
    \/ LoopEpoch
    \/ LoopPublished
    \/ LoopCancelled

(***************************************************************************)
(*                           AdaptiveAudioEngine                           *)
(***************************************************************************)

\* Bounds of the engine model.
MaxUpdates == 2
MaxSessions == 1
MaxStreams == 2

NoSession == [none |-> TRUE]

\* FREQUENCY_RANGES['carrier'] and the beat range of _adapt_frequencies (1/1000 Hz).
CarrierMin == 100000
CarrierMax == 400000
BeatClipMin == 1000
BeatClipMax == 40000

\* The beat range FrequencyResponse documents: 0.5-40 Hz.
BeatDocMin == 500

\* FREQUENCY_RANGES['flow'] as the class defines it (1/1000 Hz).
InitialFlowRanges ==
    [alpha |-> [min |-> 8000, max |-> 12000],
     theta |-> [min |-> 6000, max |-> 8000],
     beta  |-> [min |-> 12000, max |-> 15000]]

\* What the advisor may recommend at start: <<base_freq, beat_freq>>.
RecommendationInputs ==
    {<<250000, 10000>>, <<100000, 500>>, <<400000, 40000>>,
     <<50000, 200>>, <<450000, 50000>>}

\* Band powers (percent) reported to the engine; 120 is out of range.
AlphaInputs == {50, 90, 120}
ThetaInputs == {0, 100}
BetaInputs == {40, 100}
GammaInputs == {30}

\* <<alpha, theta, beta, gamma>> of one update_brainwave_response call; the
\* added calls have theta, beta or gamma out of range (-10, 130, 150).
PowerInputs ==
    (AlphaInputs \X ThetaInputs \X BetaInputs \X GammaInputs)
    \cup {<<90, -10, 40, 30>>, <<90, 100, 130, 30>>, <<90, 100, 40, 150>>}

FlowMetricsOf(a, t, b, g) ==
    [alpha_power |-> a, theta_power |-> t, beta_power |-> b, gamma_power |-> g]

\* np.clip(x, lo, hi)
Clip(x, lo, hi) == Min(Max(x, lo), hi)

\* floor(sqrt(x))
RECURSIVE SqrtBetween(_, _, _)
SqrtBetween(x, lo, hi) ==
    IF lo >= hi THEN lo
    ELSE LET mid == (lo + hi + 1) \div 2
         IN  IF mid * mid <= x THEN SqrtBetween(x, mid, hi)
                               ELSE SqrtBetween(x, lo, mid - 1)
ISqrt(x) == SqrtBetween(x, 0, 2000)

\* _calculate_flow_score(alpha, theta, beta), powers in percent, score in
\* permille: 0.6 * (1 - min(|a/t - 1.5| / 1.5, 1)) + 0.4 * (1 - min(|a/b - 2| / 2, 1))
\* with a zero theta or beta replaced by 0.1.
calculate_flow_score(alpha, theta, beta) ==
    LET t  == IF theta = 0 THEN 10 ELSE theta
        b  == IF beta = 0 THEN 10 ELSE beta
        d1 == 3 * t
        n1 == Min(Abs(2 * alpha - 3 * t), d1)
        d2 == 2 * b
        n2 == Min(Abs(alpha - 2 * b), d2)
    IN  (600 * (d1 - n1) * d2 + 400 * (d2 - n2) * d1) \div (d1 * d2)

\* _update_optimal_ranges: the new range of one band for a response (percent).
UpdatedRange(range, response) ==
    LET new_min == (9 * range.min + 10 * response) \div 10
        new_max == (90 * range.max + 110 * response) \div 100
    IN  [min |-> Max(1000, new_min), max |-> Min(40000, new_max)]

update_optimal_ranges(ranges, session, fm) ==
    IF session.flow_score < 600
    THEN ranges
    ELSE [alpha |-> UpdatedRange(ranges.alpha, fm.alpha_power),
          theta |-> UpdatedRange(ranges.theta, fm.theta_power),
          beta  |-> UpdatedRange(ranges.beta, fm.beta_power)]

\* The coupling strength without the clamp.
AdaptedCoupling_Unclamped(fm) ==
    ISqrt(100 * fm.alpha_power * fm.theta_power)

\* _adapt_frequencies: the coupling strength (permille) it sets.
AdaptedCoupling(fm) ==
    Min(Max(ISqrt(100 * fm.alpha_power * fm.theta_power), 100), 900)

\* _adapt_frequencies: the session after the frequency shift and the clip.
adapt_frequencies(session, fm) ==
    IF session.flow_score < 700
    THEN LET base == (session.base_freq * (IF fm.alpha_power < 60 THEN 98 ELSE 102)) \div 100
             beat == (session.beat_freq * (IF fm.theta_power < 60 THEN 98 ELSE 102)) \div 100
         IN  [session EXCEPT !.base_freq = Clip(base, CarrierMin, CarrierMax),
                             !.beat_freq = Clip(beat, BeatClipMin, BeatClipMax)]
    ELSE session

InitAudioVars ==
    /\ current_session = NoSession
    /\ coupling_strength = 500
    /\ flow_ranges = InitialFlowRanges
    /\ user_responses = <<>>
    /\ updates = 0
    /\ audio_op = "init"
    /\ stream = "None"
    /\ open_streams = 0

\* start(target_state, user_state) with a valid target state: the session is
\* created from the advisor's recommendation as it is.
start ==
    /\ Len(user_responses) < MaxSessions
    /\ open_streams < MaxStreams
    /\ \E rec \in RecommendationInputs :
          current_session' =
              [base_freq |-> rec[1], beat_freq |-> rec[2],
               alpha_response |-> 0, theta_response |-> 0,
               beta_response |-> 0, gamma_response |-> 0, flow_score |-> 0]
    /\ stream' = "open"
    /\ open_streams' = open_streams + 1
    /\ audio_op' = "start"
    /\ UNCHANGED <<coupling_strength, flow_ranges, user_responses, updates>>
    /\ UNCHANGED audioFrame

\* stop()
stop ==
    /\ IF stream # "None"
       THEN /\ open_streams' = open_streams - 1
            /\ stream' = "None"
       ELSE UNCHANGED <<stream, open_streams>>
    /\ IF current_session # NoSession
       THEN /\ user_responses' = Append(user_responses, current_session)
            /\ current_session' = NoSession
       ELSE UNCHANGED <<user_responses, current_session>>
    /\ coupling_strength' = 500
    /\ audio_op' = "stop"
    /\ UNCHANGED <<flow_ranges, updates>>
    /\ UNCHANGED audioFrame

\* process_flow_update(flow_metrics) on a session: ranges, then frequencies.
FlowUpdate(session, fm) ==
    /\ flow_ranges' = update_optimal_ranges(flow_ranges, session, fm)
    /\ coupling_strength' = AdaptedCoupling(fm)
    /\ current_session' = adapt_frequencies(session, fm)

\* A range check that lets every power through.
ValidPower_Any(x) == TRUE

\* update_brainwave_response: `if not 0 <= power <= 1: raise ValueError`
ValidPower(x) == 0 <= x /\ x <= 100

\* update_brainwave_response(alpha, theta, beta, gamma), the powers drawn from
\* the given sets, at most `limit` calls.
UpdateBrainwaveResponse(powers, limit) ==
    /\ updates < limit
    /\ updates' = updates + 1
    /\ \E power \in powers :
        \E a \in {power[1]}, t \in {power[2]}, b \in {power[3]}, g \in {power[4]} :
          IF current_session = NoSession
          THEN /\ audio_op' = "update:RuntimeError"
               /\ UNCHANGED <<current_session, coupling_strength, flow_ranges>>
          ELSE IF ~(ValidPower(a) /\ ValidPower(t) /\ ValidPower(b) /\ ValidPower(g))
          THEN /\ audio_op' = "update:ValueError"
               /\ UNCHANGED <<current_session, coupling_strength, flow_ranges>>
          ELSE /\ audio_op' = "update"
               /\ FlowUpdate([current_session EXCEPT
                                 !.alpha_response = a, !.theta_response = t,
                                 !.beta_response = b, !.gamma_response = g,
                                 !.flow_score = calculate_flow_score(a, t, b)],
                             FlowMetricsOf(a, t, b, g))
    /\ UNCHANGED <<user_responses, stream, open_streams>>
    /\ UNCHANGED audioFrame

update_brainwave_response ==
    UpdateBrainwaveResponse(PowerInputs, MaxUpdates)

\* process_flow_update(flow_metrics) called by the detector with band powers
\* in [0, 1].
process_flow_update ==
    /\ updates < MaxUpdates
    /\ updates' = updates + 1
    /\ audio_op' = "flow_update"
    /\ \E a \in {x \in AlphaInputs : ValidPower(x)},
          t \in {x \in ThetaInputs : ValidPower(x)},
          b \in {x \in BetaInputs : ValidPower(x)},
          g \in {x \in GammaInputs : ValidPower(x)} :
          IF current_session = NoSession
          THEN UNCHANGED <<current_session, coupling_strength, flow_ranges>>
          ELSE FlowUpdate(current_session, FlowMetricsOf(a, t, b, g))
    /\ UNCHANGED <<user_responses, stream, open_streams>>
    /\ UNCHANGED audioFrame

NextAudio ==
    \/ start
    \/ stop
    \/ update_brainwave_response
    \/ process_flow_update

\* A long session in which the listener's response stays the same: alpha 0.9,
\* theta 1.0, beta 0.4, gamma 0.3 (flow score 0.71) at every update.
MaxRangeUpdates == 35

SteadyUpdate == UpdateBrainwaveResponse({<<90, 100, 40, 30>>}, MaxRangeUpdates)

NextRanges ==
    \/ start
    \/ SteadyUpdate

(***************************************************************************)
(* FlowStateDetector.detect_flow_state and its helpers.  Feature values    *)
(* and scores are in 1/1000; a features dictionary is a function whose     *)
(* domain is the set of keys present.                                      *)
(***************************************************************************)
MaxEpochs == 12

\* Python's None, and a float where None is also possible.
NoneValue == [none |-> TRUE]
Float(x) == [float |-> x]

\* class FlowState(IntEnum)
FlowStates == {"UNKNOWN", "ANXIETY", "BOREDOM", "FLOW", "DEEP_FLOW"}

FeatureKeys == {"cognitive_load", "attention_level", "focus_score"}
FeatureValues == {200, 800, 1500}
FeatureInputs == UNION {[K -> FeatureValues] : K \in SUBSET FeatureKeys}

\* features.get(key, default)
Get(features, key, default) ==
    IF key \in DOMAIN features THEN features[key] ELSE default

\* _determine_flow_state(features): the body is a docstring and a comment,
\* so the call returns None.
determine_flow_state(features) == "None"

\* _calculate_confidence(features): likewise returns None, whatever the
\* features and the history.
calculate_confidence(history, features) == NoneValue

\* _generate_recommendations(flow_state, features)
StateRecommendations(flow_state, features) ==
    IF flow_state = "ANXIETY" THEN
        (IF Get(features, "cognitive_load", 0) > 700
         THEN <<"Cognitive load is high. Try breaking the task into smaller steps.">>
         ELSE <<>>)
        \o <<"Challenge level may be too high. Consider reducing complexity.">>
    ELSE IF flow_state = "BOREDOM" THEN
        (IF Get(features, "attention_level", 0) < 300
         THEN <<"Attention level is low. Try increasing task complexity.">>
         ELSE <<>>)
        \o <<"Challenge level may be too low. Consider adding complexity.">>
    ELSE IF flow_state = "FLOW" THEN
        <<"Maintain current engagement level.">>
        \o (IF Get(features, "cognitive_load", 0) > 800
            THEN <<"Watch cognitive load - take breaks if needed.">>
            ELSE <<>>)
    ELSE IF flow_state = "DEEP_FLOW" THEN
        <<"Optimal state achieved. Maintain current conditions.">>
    ELSE <<>>

BinauralRecommendations(features) ==
    IF Get(features, "attention_level", 0) < 500
    THEN <<"Consider alpha-theta binaural beats (8-10 Hz) to improve focus.">>
    ELSE IF Get(features, "cognitive_load", 0) > 700
    THEN <<"Try alpha binaural beats (10-12 Hz) to reduce cognitive load.">>
    ELSE <<>>

generate_recommendations(flow_state, features) ==
    StateRecommendations(flow_state, features) \o BinauralRecommendations(features)

\* detect_flow_state(eeg_data, features): the FlowMetrics it returns.
detect_flow_state(history, features) ==
    LET flow_state == determine_flow_state(features)
    IN  [flow_level |-> flow_state,
         confidence |-> calculate_confidence(history, features),
         challenge_skill_balance |-> Get(features, "challenge_skill_ratio", 0),
         cognitive_load |-> Get(features, "cognitive_load", 0),
         attention_level |-> Get(features, "attention_level", 0),
         theta_gamma_coupling |-> Get(features, "theta_gamma_coupling", 0),
         phase_sync |-> Get(features, "phase_synchronization", 0),
         focus_score |-> Get(features, "focus_score", 0),
         flow_probability |-> Get(features, "flow_probability", 0),
         recommendations |-> generate_recommendations(flow_state, features)]

\* extract_features: sync = 1 - np.std(np.mod(alpha_phase - beta_phase, 2*pi)),
\* phases in 1/1000 rad, the standard deviation rounded down.
TwoPi == 6283
PhaseInputs == {<<0, 0>>, <<0, 500>>, <<0, 3000>>, <<3000, -3000>>}

PhaseDiff(alpha_phase, beta_phase) ==
    [i \in 1..Len(alpha_phase) |-> (alpha_phase[i] - beta_phase[i]) % TwoPi]

Std(xs) ==
    LET n == Len(xs)
        s == SumRange(xs, 1, n)
        q == SumSqRange(xs, 1, n)
    IN  SqrtBetween((n * q - s * s) \div (n * n), 0, TwoPi)

alpha_beta_sync(alpha_phase, beta_phase) ==
    1000 - Std(PhaseDiff(alpha_phase, beta_phase))

InitClassifyVars ==
    /\ history_size = 0
    /\ clf_op = "init"
    /\ clf_state = "None"
    /\ clf_features = <<>>
    /\ metrics = NoneValue
    /\ recommendations = <<>>

\* One epoch of the detector: the history grows by one entry, then
\* detect_flow_state classifies the epoch's features.
DetectFlowState ==
    /\ history_size < MaxEpochs
    /\ history_size' = history_size + 1
    /\ \E f \in FeatureInputs :
          /\ clf_features' = f
          /\ metrics' = detect_flow_state(history_size', f)
          /\ clf_state' = metrics'.flow_level
          /\ recommendations' = metrics'.recommendations
    /\ clf_op' = "detect"
    /\ UNCHANGED classifyFrame

\* _generate_recommendations(flow_state, features) called on its own.
GenerateRecommendations ==
    /\ \E s \in FlowStates, f \in FeatureInputs :
          /\ clf_state' = s
          /\ clf_features' = f
          /\ recommendations' = generate_recommendations(s, f)
    /\ metrics' = NoneValue
    /\ clf_op' = "recommend"
    /\ UNCHANGED history_size
    /\ UNCHANGED classifyFrame

\* The phase-synchronization feature extract_features computes.
ExtractPhaseSync ==
    /\ \E a \in PhaseInputs, b \in PhaseInputs :
          clf_features' = [k \in {"alpha_beta_sync"} |-> alpha_beta_sync(a, b)]
    /\ clf_state' = "None"
    /\ metrics' = NoneValue
    /\ recommendations' = <<>>
    /\ clf_op' = "extract"
    /\ UNCHANGED history_size
    /\ UNCHANGED classifyFrame

NextClassify ==
    \/ DetectFlowState
    \/ GenerateRecommendations
    \/ ExtractPhaseSync

(***************************************************************************)
(* FlowStateStabilitySystem (core/algorithms/flow/stability_system).       *)
(* Scores are in 1/1000; HRV samples are integers (milliseconds).          *)
(***************************************************************************)
MaxStabilityEpochs == 5
MaxHistoryEpochs == 101

stability_threshold == 800
challenge_increment == 100
RecoveryThreshold == 700
ChallengeMin == 300
ChallengeMax == 900
InitialChallenge == 500
VarianceWindow == 10

\* What the collaborators report in one epoch: the attention maximizer's
\* attention_score and cognitive_load, the biometric client's HRV samples and
\* recovery score.
StabilityInputs ==
    { [attention_score |-> 900, cognitive_load |-> 700,
       hrv_data |-> <<50, 50>>, recovery |-> 900],
      [attention_score |-> 900, cognitive_load |-> 700,
       hrv_data |-> <<50, 50>>, recovery |-> 200],
      [attention_score |-> 300, cognitive_load |-> 300,
       hrv_data |-> <<20, 80>>, recovery |-> 900],
      [attention_score |-> 900, cognitive_load |-> 800,
       hrv_data |-> <<>>, recovery |-> 900] }

\* A session in which every epoch reports the same readings.
SteadyInputs ==
    { [attention_score |-> 900, cognitive_load |-> 700,
       hrv_data |-> <<50, 50>>, recovery |-> 900] }

\* 1.0 - np.std(hrv_data) / np.mean(hrv_data), clipped to [0, 1]
HrvRegularity(hrv_data) ==
    LET n == Len(hrv_data)
        mean == SumRange(hrv_data, 1, n) \div n
    IN  Clip(1000 - (Std(hrv_data) * 1000) \div mean, 0, 1000)

\* _compute_hrv_coherence
compute_hrv_coherence(hrv_data) ==
    IF Len(hrv_data) < 2 THEN 500 ELSE HrvRegularity(hrv_data)

\* _compute_physiological_stability
compute_physiological_stability(hrv_data) ==
    IF Len(hrv_data) < 2 THEN 1000 ELSE HrvRegularity(hrv_data)

\* _compute_flow_depth
compute_flow_depth(attention_score, cognitive_load, hrv_coherence) ==
    LET load_optimality == 1000 - Abs(750 - cognitive_load) * 2
    IN  Clip((400 * attention_score + 300 * load_optimality
              + 300 * hrv_coherence) \div 1000, 0, 1000)

\* np.var of the last VarianceWindow entries of a history (permille)
RecentVariance(history) ==
    LET n  == VarianceWindow
        lo == Len(history) - n + 1
        s  == SumRange(history, lo, Len(history))
        q  == SumSqRange(history, lo, Len(history))
    IN  (n * q - s * s) \div (n * n * 1000)

\* _compute_attention_stability, read from the flow history
compute_attention_stability(history) ==
    IF Len(history) < 2 THEN 1000
    ELSE Clip(1000 - (IF Len(history) >= VarianceWindow
                      THEN RecentVariance(history) ELSE 0), 0, 1000)

\* _compute_stability_score
compute_stability_score(flow_depth, attention_stability, physiological_stability) ==
    Clip((400 * flow_depth + 300 * attention_stability
          + 300 * physiological_stability) \div 1000, 0, 1000)

\* _compute_recovery_capacity
compute_recovery_capacity(recovery_score, cognitive_load) ==
    Clip((700 * recovery_score + 300 * (1000 - cognitive_load)) \div 1000, 0, 1000)

\* compute_stability_metrics
compute_stability_metrics(in, history, challenge) ==
    LET flow_depth == compute_flow_depth(in.attention_score, in.cognitive_load,
                                         compute_hrv_coherence(in.hrv_data))
    IN  [flow_depth |-> flow_depth,
         stability_score |->
             compute_stability_score(flow_depth,
                                     compute_attention_stability(history),
                                     compute_physiological_stability(in.hrv_data)),
         challenge_level |-> challenge,
         recovery_capacity |->
             compute_recovery_capacity(in.recovery, in.cognitive_load)]

\* A selection that looks at the recovery capacity first.
SelectMode_RecoveryFirst(m) ==
    IF m.recovery_capacity > RecoveryThreshold THEN "DEEPEN"
    ELSE IF m.stability_score < stability_threshold THEN "STABILIZE"
    ELSE "MAINTAIN"

\* The branch maintain_stability takes.
SelectMode(m) ==
    IF m.stability_score < stability_threshold THEN "STABILIZE"
    ELSE IF m.recovery_capacity > RecoveryThreshold THEN "DEEPEN"
    ELSE "MAINTAIN"

\* The adjustment without the max(0.3, .) / min(0.9, .) limits.
AdjustedChallenge_Unclamped(mode, challenge) ==
    IF mode = "STABILIZE" THEN challenge - challenge_increment
    ELSE IF mode = "DEEPEN" THEN challenge + challenge_increment
    ELSE challenge

\* _stabilize_state / _deepen_flow / _maintain_state: the challenge level
AdjustedChallenge(mode, challenge) ==
    IF mode = "STABILIZE" THEN Max(ChallengeMin, challenge - challenge_increment)
    ELSE IF mode = "DEEPEN" THEN Min(ChallengeMax, challenge + challenge_increment)
    ELSE challenge

InitStabilityVars ==
    /\ flow_history = <<>>
    /\ challenge_history = <<>>
    /\ current_challenge = InitialChallenge
    /\ stability_mode = "none"
    /\ stability_metrics = NoneValue
    /\ epoch_state = "None"

\* maintain_stability(eeg_phase) in an epoch the detector classified as
\* `state`; the classification is not among the method's arguments.
MaintainStability(inputs, limit) ==
    /\ Len(flow_history) < limit
    /\ \E in \in inputs :
          \E m \in {compute_stability_metrics(in, flow_history, current_challenge)} :
             /\ stability_metrics' = m
             /\ flow_history' = Append(flow_history, m.flow_depth)
             /\ challenge_history' = Append(challenge_history, m.challenge_level)
             /\ stability_mode' = SelectMode(m)
             /\ current_challenge' = AdjustedChallenge(stability_mode', current_challenge)
    /\ \E state \in FlowStates : epoch_state' = state
    /\ UNCHANGED stabilityFrame

maintain_stability == MaintainStability(StabilityInputs, MaxStabilityEpochs)

NextStability == maintain_stability

\* A long session of identical epochs.
SteadyEpoch == MaintainStability(SteadyInputs, MaxHistoryEpochs)

NextSteady == SteadyEpoch

(***************************************************************************)
(* RealtimeEEGProcessor.run_pipeline: the loop that takes chunks from a    *)
(* queue, processes them into the buffer and extracts features.            *)
(***************************************************************************)
MaxPipeChunks == 4

\* A handler that lets the exception end the loop.
ExceptionHandler_Reraise(e) == "stopped"

\* except Exception as e: logging.error(...); continue
ExceptionHandler(e) == "running"

\* What extract_features can do on a buffer that is not empty.
ExtractionOutcomes == {"features", "Exception"}

InitPipelineVars ==
    /\ pipe_stream = <<>>
    /\ pipe_put = 0
    /\ pipe_taken = <<>>
    /\ pipe_errors = <<>>
    /\ pipe_pc = "running"

\* The producer puts one chunk on the queue; a chunk that is not valid makes
\* process_chunk raise in its filtering.
PipelinePut ==
    /\ pipe_put < MaxPipeChunks
    /\ pipe_put' = pipe_put + 1
    /\ \E ok \in BOOLEAN : pipe_stream' = Append(pipe_stream, Chunk(pipe_put + 1, ok))
    /\ UNCHANGED <<pipe_taken, pipe_errors, pipe_pc>>
    /\ UNCHANGED <<bufferVars, pipelineBufferFrame>>

\* One iteration of the while loop of run_pipeline.
RunPipelineStep ==
    /\ pipe_pc = "running"
    /\ pipe_stream # <<>>
    /\ \E c \in {Head(pipe_stream)} :
          /\ pipe_stream' = Tail(pipe_stream)
          /\ pipe_taken' = Append(pipe_taken, c.id)
          /\ IF ~c.valid
             THEN \* process_chunk raises before it touches the buffer
                  /\ pipe_errors' = Append(pipe_errors, [id |-> c.id, at |-> "process_chunk"])
                  /\ pipe_pc' = ExceptionHandler("Exception")
                  /\ UNCHANGED <<buffer_data, filtered_data, pushed, features_result>>
             ELSE /\ buffer_data' = DequeAppend(buffer_data, c.id)
                  /\ filtered_data' = c.id
                  /\ pushed' = pushed + 1
                  /\ \E outcome \in ExtractionOutcomes :
                        /\ features_result' = outcome
                        /\ IF outcome = "Exception"
                           THEN /\ pipe_errors' =
                                      Append(pipe_errors,
                                             [id |-> c.id, at |-> "extract_features"])
                                /\ pipe_pc' = ExceptionHandler("Exception")
                           ELSE UNCHANGED <<pipe_errors, pipe_pc>>
    /\ UNCHANGED <<sampling_rate, buffer_size, pipe_put>>
    /\ UNCHANGED pipelineBufferFrame

NextPipeline ==
    \/ PipelinePut
    \/ RunPipelineStep

(***************************************************************************)
(* Construction: FlowStateDetector.__init__, which builds its              *)
(* RealtimeEEGProcessor, which designs its filters.  Frequencies in Hz.    *)
(***************************************************************************)
MaxSteadyChunks == 6

ChannelInputs == {<<>>, <<"Fp1">>, <<"Fp1", "Fp2">>}
RateInputs == {-256, 0, 128, 200, 250, 256, 512}

\* An exception leaving a call.
Raised(e) == [raised |-> e]

\* _init_filters: the bands and their cutoffs
BandCutoffs ==
    [theta |-> <<4, 8>>, alpha |-> <<8, 13>>, beta |-> <<13, 30>>,
     gamma |-> <<30, 100>>, line_noise |-> <<48, 52>>]

\* A filter design that accepts any cutoffs.
butter_Unchecked(low, high, fs) == "coefficients"

\* scipy.signal.butter(3, [low, high], btype, fs=fs): the critical
\* frequencies 2*f/fs must lie strictly between 0 and 1.
butter(low, high, fs) ==
    IF fs > 0 /\ 0 < 2 * low /\ 2 * high < fs THEN "coefficients" ELSE "ValueError"

\* RealtimeEEGProcessor._init_filters
init_filters(fs) ==
    [band \in DOMAIN BandCutoffs |->
        butter(BandCutoffs[band][1], BandCutoffs[band][2], fs)]

\* RealtimeEEGProcessor.__init__(channels, sampling_rate)
RealtimeEEGProcessor_init(channels, rate) ==
    LET filters == init_filters(rate)
    IN  IF \E band \in DOMAIN filters : filters[band] = "ValueError"
        THEN Raised("ValueError")
        ELSE [channels |-> channels, sampling_rate |-> rate,
              buffer_size |-> BufferSizeOf(rate, DefaultBufferDuration),
              filters |-> filters]

\* FlowStateDetector.__init__(channels, sampling_rate)
FlowStateDetector_init(channels, rate) ==
    IF Len(channels) = 0 THEN Raised("ValueError")
    ELSE IF rate <= 0 THEN Raised("ValueError")
    ELSE LET processor == RealtimeEEGProcessor_init(channels, rate)
         IN  IF processor = Raised("ValueError") THEN processor
             ELSE [eeg_processor |-> processor, data_stream |-> <<>>,
                   processing_task |-> "None", feature_history |-> <<>>]

InitConstructVars ==
    /\ ctor_args = NoneValue
    /\ ctor_error = "none"
    /\ detector = NoneValue
    /\ steady_chunks = 0
    /\ steady_error = "none"

\* detector = FlowStateDetector(channels, sampling_rate)
Construct ==
    /\ ctor_args = NoneValue
    /\ \E channels \in ChannelInputs, rate \in RateInputs :
          /\ ctor_args' = [channels |-> channels, sampling_rate |-> rate]
          /\ \E built \in {FlowStateDetector_init(channels, rate)} :
                IF built = Raised("ValueError")
                THEN ctor_error' = "ValueError" /\ UNCHANGED detector
                ELSE ctor_error' = "none" /\ detector' = built
    /\ UNCHANGED <<steady_chunks, steady_error>>
    /\ UNCHANGED constructFrame

\* process_chunk on the constructed detector's processor: every band is
\* filtered with the coefficients stored at construction.
SteadyChunk ==
    /\ detector # NoneValue
    /\ steady_chunks < MaxSteadyChunks
    /\ steady_chunks' = steady_chunks + 1
    /\ steady_error' =
          IF \A band \in DOMAIN BandCutoffs :
                detector.eeg_processor.filters[band] = "coefficients"
          THEN steady_error ELSE "ValueError"
    /\ UNCHANGED <<ctor_args, ctor_error, detector>>
    /\ UNCHANGED constructFrame

NextConstruct ==
    \/ Construct
    \/ SteadyChunk

(***************************************************************************)
(* Two AdaptiveAudioEngine instances in one process.  FREQUENCY_RANGES is  *)
(* an attribute of the class: an instance that reads or writes             *)
(* self.FREQUENCY_RANGES reaches the one dictionary of the class.          *)
(***************************************************************************)
MaxEngineUpdates == 2

Engines == {1, 2}

\* The recommendation every session of this part starts from.
EngineRecommendation == <<250000, 10000>>

\* self.FREQUENCY_RANGES['flow'] as instance e reads it
RangesOf(e) == class_ranges

InitEnginesVars ==
    /\ engines = [e \in Engines |-> [session |-> NoSession, coupling_strength |-> 500]]
    /\ class_ranges = InitialFlowRanges
    /\ engine_updates = 0
    /\ engine_op = [engine |-> 0, op |-> "init"]

\* start(target_state, user_state) on instance e
EngineStart(e) ==
    /\ engines[e].session = NoSession
    /\ engines' = [engines EXCEPT ![e].session =
                      [base_freq |-> EngineRecommendation[1],
                       beat_freq |-> EngineRecommendation[2],
                       alpha_response |-> 0, theta_response |-> 0,
                       beta_response |-> 0, gamma_response |-> 0,
                       flow_score |-> 0]]
    /\ engine_op' = [engine |-> e, op |-> "start"]
    /\ UNCHANGED <<class_ranges, engine_updates>>
    /\ UNCHANGED enginesFrame

\* update_brainwave_response(alpha, theta, beta, gamma) on instance e
EngineUpdate(e) ==
    /\ engine_updates < MaxEngineUpdates
    /\ engine_updates' = engine_updates + 1
    /\ \E a \in AlphaInputs, t \in ThetaInputs, b \in BetaInputs, g \in GammaInputs :
          IF engines[e].session = NoSession
          THEN /\ engine_op' = [engine |-> e, op |-> "update:RuntimeError"]
               /\ UNCHANGED <<engines, class_ranges>>
          ELSE IF ~(ValidPower(a) /\ ValidPower(t) /\ ValidPower(b) /\ ValidPower(g))
          THEN /\ engine_op' = [engine |-> e, op |-> "update:ValueError"]
               /\ UNCHANGED <<engines, class_ranges>>
          ELSE \E session \in {[engines[e].session EXCEPT
                                   !.alpha_response = a, !.theta_response = t,
                                   !.beta_response = b, !.gamma_response = g,
                                   !.flow_score = calculate_flow_score(a, t, b)]} :
                  /\ engine_op' = [engine |-> e, op |-> "update"]
                  /\ class_ranges' = update_optimal_ranges(RangesOf(e), session,
                                                           FlowMetricsOf(a, t, b, g))
                  /\ engines' =
                        [engines EXCEPT
                            ![e] = [session |-> adapt_frequencies(session,
                                                    FlowMetricsOf(a, t, b, g)),
                                    coupling_strength |->
                                        AdaptedCoupling(FlowMetricsOf(a, t, b, g))]]
    /\ UNCHANGED enginesFrame

NextEngines ==
    \/ \E e \in Engines : EngineStart(e)
    \/ \E e \in Engines : EngineUpdate(e)

(***************************************************************************)
(*                             Specifications                              *)

(***************************************************************************)
(* process_chunk on the samples of a chunk: the artifact mask, the data    *)
(* handed to the band filters and the data appended to the buffer.  The    *)
(* input is the chunk as the line-noise filter returned it; a band filter  *)
(* is kept symbolic, as the band together with the data it was given.      *)
(***************************************************************************)
MaxMaskedChunks == 2
ChunkLen == 3
ChunkSamples == {0, 5, 150}
DenoisedInputs == [1..ChunkLen -> ChunkSamples]

Bands == {"theta", "alpha", "beta", "gamma"}

\* The band filters given the chunk as it is.
MaskedData_Unmasked(denoised, m) == denoised

\* process_chunk: `denoised * clean_mask`
MaskedData(denoised, m) ==
    [i \in 1..Len(denoised) |-> IF m[i] THEN denoised[i] ELSE 0]

\* signal.filtfilt(b, a, x) of one band
BandFilter(band, x) == [band |-> band, input |-> x]

\* extract_features: np.mean(np.abs(hilbert_data)**2) of one band's data,
\* as the sum of squares and the number of samples of the filter's input.
BandPower(band_data) ==
    [band |-> band_data.band,
     energy |-> SumSqRange(band_data.input, 1, Len(band_data.input)),
     samples |-> Len(band_data.input)]

InitMaskedVars ==
    /\ sample_buffer = <<>>
    /\ clean_mask = <<>>
    /\ band_filtered = [band \in Bands |-> BandFilter(band, <<>>)]

\* process_chunk(data), from the line-noise-filtered chunk on
ProcessChunkSamples ==
    /\ Len(sample_buffer) < MaxMaskedChunks
    /\ \E denoised \in DenoisedInputs :
          /\ clean_mask' = detect_artifacts(denoised)
          /\ band_filtered' =
                [band \in Bands |->
                    BandFilter(band, MaskedData(denoised, clean_mask'))]
          /\ sample_buffer' = DequeAppend(sample_buffer, denoised)
    /\ UNCHANGED maskedFrame

NextMasked == ProcessChunkSamples


(***************************************************************************)
(* HealthDataSyncService.sync_all_data.  What a provider and the           *)
(* repository do for one kind of data is an input: the provider returns    *)
(* rows, returns an empty frame or raises, and saving a row may raise.     *)
(***************************************************************************)
MaxSyncCalls == 1

\* self.providers, in insertion order
Providers == <<"apple_health", "google_fit", "myfitnesspal", "oura", "whoop">>
ProviderNames == {Providers[i] : i \in 1..Len(Providers)}

SyncInputs == {"rows", "empty", "provider raises", "save raises"}

\* _sync_sleep_data, _sync_exercise_data, _sync_mood_data: the value returned.
\* Every exception is caught inside and turned into False.
sync_data(outcome) == outcome = "rows"

\* _sync_biometric_data: an empty frame is skipped, not a failure.
sync_biometric_data(hrv, readiness) ==
    /\ hrv \in {"rows", "empty"}
    /\ readiness \in {"rows", "empty"}

\* A result that is never True.
ProviderResult_Never(sleep, exercise, biometric, mood) == FALSE

\* sync_all_data: results[provider_name] after the try body has run through;
\* the values the four syncs returned are assigned to locals and not read.
ProviderResult(sleep, exercise, biometric, mood) == TRUE

\* results[provider_name] = value
Assign(r, name, value) ==
    [n \in DOMAIN r \cup {name} |-> IF n = name THEN value ELSE r[n]]

InitSyncVars ==
    /\ sync_pc = "idle"
    /\ sync_calls = 0
    /\ sync_pending = <<>>
    /\ results = <<>>
    /\ sync_returned = <<>>
    /\ sync_last = NoneValue

\* sync_all_data(user_id, start_date, end_date) is called
SyncAllData ==
    /\ sync_pc \in {"idle", "returned"}
    /\ sync_calls < MaxSyncCalls
    /\ sync_calls' = sync_calls + 1
    /\ sync_pc' = "running"
    /\ sync_pending' = Providers
    /\ results' = <<>>
    /\ sync_returned' = <<>>
    /\ sync_last' = NoneValue
    /\ UNCHANGED syncFrame

\* One iteration of `for provider_name, provider in self.providers.items()`
SyncProvider ==
    /\ sync_pc = "running"
    /\ sync_pending # <<>>
    /\ \E sleep_in \in SyncInputs, exercise_in \in SyncInputs,
          hrv_in \in SyncInputs, mood_in \in SyncInputs :
          \E sleep \in {sync_data(sleep_in)},
             exercise \in {sync_data(exercise_in)},
             biometric \in {sync_biometric_data(hrv_in, mood_in)},
             mood \in {sync_data(mood_in)} :
             /\ sync_last' = [sleep |-> sleep, exercise |-> exercise,
                               biometric |-> biometric, mood |-> mood]
             /\ sync_returned' =
                   Assign(sync_returned, Head(sync_pending),
                          sleep /\ exercise /\ biometric /\ mood)
             /\ results' =
                   Assign(results, Head(sync_pending),
                          ProviderResult(sleep, exercise, biometric, mood))
    /\ sync_pending' = Tail(sync_pending)
    /\ UNCHANGED <<sync_pc, sync_calls>>
    /\ UNCHANGED syncFrame

\* `return results`
SyncReturn ==
    /\ sync_pc = "running"
    /\ sync_pending = <<>>
    /\ sync_pc' = "returned"
    /\ UNCHANGED <<sync_calls, sync_pending, results, sync_returned, sync_last>>
    /\ UNCHANGED syncFrame

NextSync ==
    \/ SyncAllData
    \/ SyncProvider
    \/ SyncReturn


(***************************************************************************)
(* EEGProcessor.start_monitoring / stop_monitoring.  A call of             *)
(* start_monitoring that passes the guard is itself the monitoring loop;   *)
(* it runs without interruption from one await that suspends to the next   *)
(* (the callback and asyncio.sleep; process_chunk contains no await).      *)
(***************************************************************************)
MaxMonitorStarts == 3
MaxMonitorChunks == 4

\* `if data and self._callback: await self._callback(data)`, then the sleep:
\* where the loop suspends after pulling a chunk.
AfterChunk == {"callback", "sleep"}

ActiveLoops(loops) == {i \in 1..Len(loops) : loops[i] # "ended"}

InitMonitorVars ==
    /\ processing = FALSE
    /\ monitor_loops = <<>>
    /\ monitor_starts = 0
    /\ monitor_chunks = 0
    /\ monitor_op = "init"

\* start_monitoring(callback), up to its first suspension
start_monitoring ==
    /\ monitor_starts < MaxMonitorStarts
    /\ monitor_starts' = monitor_starts + 1
    /\ IF processing
       THEN /\ monitor_op' = "start:already"
            /\ UNCHANGED <<processing, monitor_loops, monitor_chunks>>
       ELSE /\ monitor_chunks < MaxMonitorChunks
            /\ processing' = TRUE
            /\ monitor_chunks' = monitor_chunks + 1
            /\ \E pc \in AfterChunk : monitor_loops' = Append(monitor_loops, pc)
            /\ monitor_op' = "start"
    /\ UNCHANGED monitorFrame

\* stop_monitoring()
stop_monitoring ==
    /\ processing' = FALSE
    /\ monitor_op' = "stop"
    /\ UNCHANGED <<monitor_loops, monitor_starts, monitor_chunks>>
    /\ UNCHANGED monitorFrame

\* The callback of loop i returns; the loop goes on to asyncio.sleep(0.1).
CallbackReturns(i) ==
    /\ monitor_loops[i] = "callback"
    /\ monitor_loops' = [monitor_loops EXCEPT ![i] = "sleep"]
    /\ monitor_op' = "loop"
    /\ UNCHANGED <<processing, monitor_starts, monitor_chunks>>
    /\ UNCHANGED monitorFrame

\* Loop i wakes from the sleep and tests `while self._processing`.
LoopWakes(i) ==
    /\ monitor_loops[i] = "sleep"
    /\ IF processing
       THEN /\ monitor_chunks < MaxMonitorChunks
            /\ monitor_chunks' = monitor_chunks + 1
            /\ \E pc \in AfterChunk :
                  monitor_loops' = [monitor_loops EXCEPT ![i] = pc]
       ELSE /\ monitor_loops' = [monitor_loops EXCEPT ![i] = "ended"]
            /\ UNCHANGED monitor_chunks
    /\ monitor_op' = "loop"
    /\ UNCHANGED <<processing, monitor_starts>>
    /\ UNCHANGED monitorFrame

NextMonitor ==
    \/ start_monitoring
    \/ stop_monitoring
    \/ \E i \in 1..Len(monitor_loops) : CallbackReturns(i)
    \/ \E i \in 1..Len(monitor_loops) : LoopWakes(i)

(***************************************************************************)

Init ==
    /\ InitBufferVars /\ InitArtifactVars /\ InitLoopVars /\ InitAudioVars
    /\ InitClassifyVars /\ InitStabilityVars /\ InitPipelineVars
    /\ InitConstructVars /\ InitEnginesVars
    /\ InitMaskedVars
    /\ InitSyncVars
    /\ InitMonitorVars

Next ==
    \/ NextBuffer \/ NextArtifact \/ NextLoop \/ NextAudio
    \/ NextClassify \/ NextStability \/ NextSteady
    \/ NextPipeline \/ NextConstruct \/ NextEngines
    \/ NextRanges
    \/ NextMasked
    \/ NextSync
    \/ NextMonitor

Spec == Init /\ [][Next]_vars

\* The sample buffer alone.
SpecBuffer == Init /\ [][NextBuffer]_vars

\* _detect_artifacts applied to input epochs.
SpecArtifact == Init /\ [][NextArtifact]_vars

\* The detector's processing loop with its producer and its start/stop callers.
SpecLoop == Init /\ [][NextLoop]_vars

\* The audio engine.
SpecAudio == Init /\ [][NextAudio]_vars

\* The classifier alone.
SpecRanges == Init /\ [][NextRanges]_vars

SpecClassify == Init /\ [][NextClassify]_vars

\* The stability controller with varying readings.
SpecStability == Init /\ [][NextStability]_vars

\* The stability controller over a long session of identical epochs.
SpecSteady == Init /\ [][NextSteady]_vars

\* run_pipeline with its producer; the event loop resumes the pipeline task
\* whenever the queue holds a chunk.
SpecPipeline == Init /\ [][NextPipeline]_vars /\ WF_vars(RunPipelineStep)

\* Construction of a detector, then steady-state processing.
SpecConstruct == Init /\ [][NextConstruct]_vars

\* Two engine instances used side by side.
SpecEngines == Init /\ [][NextEngines]_vars

\* The monitoring loops of one EEGProcessor and their callers.
SpecMonitor == Init /\ [][NextMonitor]_vars

\* One sync_all_data call; the coroutine runs on whenever it can.
SpecSync == Init /\ [][NextSync]_vars /\ WF_vars(NextSync)

\* process_chunk on sample values.
SpecMasked == Init /\ [][NextMasked]_vars

(***************************************************************************)
(*                                 Claims                                  *)
(***************************************************************************)

\* C1: every flow update of an active session changes base_freq and
\* beat_freq by at most 2% of the previous value (one 1/1000 Hz of rounding
\* allowed), also in the update where the clip to the safe range applies.
C1_BoundedStep ==
    [][(/\ audio_op' \in {"update", "flow_update"}
        /\ current_session # NoSession
        /\ current_session' # NoSession)
       => /\ 100 * Abs(current_session'.base_freq - current_session.base_freq)
                <= 2 * current_session.base_freq + 100
          /\ 100 * Abs(current_session'.beat_freq - current_session.beat_freq)
                <= 2 * current_session.beat_freq + 100]_vars

\* C2: in every state of an active session the carrier frequency lies in
\* 100-400 Hz and the beat frequency in 0.5-40 Hz.
C2_FrequenciesInSafeRange ==
    current_session # NoSession =>
        /\ CarrierMin <= current_session.base_freq
        /\ current_session.base_freq <= CarrierMax
        /\ BeatDocMin <= current_session.beat_freq
        /\ current_session.beat_freq <= BeatClipMax

\* C3: the buffer never holds more than capacity = sample rate x buffer
\* duration entries, and holds exactly that many once more were pushed.
C3_BufferWithinCapacity ==
    /\ Len(buffer_data) <= buffer_size
    /\ pushed > buffer_size => Len(buffer_data) = buffer_size

\* C4: after more than capacity pushes the buffer is exactly the last
\* `capacity` pushed entries, in arrival order.
C4_RetainsMostRecent ==
    pushed > buffer_size =>
        buffer_data = [i \in 1..buffer_size |-> pushed - buffer_size + i]

InHistory(id) == \E i \in 1..Len(feature_history) : feature_history[i] = id
IsPublished(id) == \E i \in 1..Len(published) : published[i] = id
LoopEnded == loop_pc \in {"none", "done", "cancelled"}

Increasing(s) == \A i, j \in 1..Len(s) : i < j => s[i] < s[j]

\* C6: history entries and published metrics follow the order in which the
\* chunks were put on the stream, and metrics are published only for chunks
\* whose features are already in the history.
C6_EpochOrder ==
    /\ Increasing(feature_history)
    /\ Increasing(published)
    /\ \A i \in 1..Len(published) : InHistory(published[i])

\* C6 witness: two chunks went through the loop, the later one still being
\* published after a third was put.
C6_Witness ==
    /\ Len(published) >= 2
    /\ Len(feature_history) >= 3

AllZero(data) == \A i \in 1..Len(data) : data[i] = 0

\* C8: for an all-zero epoch of any length the mask excludes every sample,
\* so that signal_quality is exactly 0.
C8_FlatEpochQualityZero ==
    (artifact_pc = "masked" /\ AllZero(epoch))
        => CleanCount(mask) = 0 /\ signal_quality(mask) = 0

\* The flat runs of the claim: every window of flatline_duration samples of
\* the epoch, the last one included, or the whole of a shorter epoch.
ClaimWindows(data) ==
    IF Len(data) <= flatline_duration
    THEN {<<1, Len(data)>>}
    ELSE {<<s, s + flatline_duration - 1>> : s \in 1..(Len(data) - flatline_duration + 1)}

ClaimExcluded(data, i) ==
    \/ Abs(data[i]) > amplitude_threshold
    \/ Abs(Gradient(data, i)) > gradient_threshold
    \/ \E w \in ClaimWindows(data) :
          w[1] <= i /\ i <= w[2] /\ StdBelowTenth(data, w[1], w[2])

\* C9: a sample is excluded iff its amplitude or its gradient is strictly
\* above the threshold or it lies in a flat run, wherever the run lies.
C9_MaskIffArtifact ==
    artifact_pc = "masked" =>
        \A i \in 1..Len(epoch) : mask[i] <=> ~ClaimExcluded(epoch, i)

\* C11: while the feature history holds fewer than 10 epochs, the confidence of
\* every FlowMetrics returned by detect_flow_state is exactly 0.5.
C11_ConfidenceHalfOnShortHistory ==
    (clf_op = "detect" /\ history_size < 10) => metrics.confidence = Float(500)

\* C12: detect_flow_state always classifies into a member of FlowState, and
\* an empty features dictionary is classified UNKNOWN.
C12_ClassifiesIntoFlowState ==
    clf_op = "detect" =>
        /\ metrics.flow_level \in FlowStates
        /\ (DOMAIN clf_features = {} => metrics.flow_level = "UNKNOWN")

\* C13: every score field of a returned FlowMetrics lies in [0, 1], and so
\* does the alpha-beta synchronization feature extract_features computes.
InUnitRange(x) == 0 <= x /\ x <= 1000

C13_ScoresInUnitRange ==
    /\ clf_op = "detect" =>
          /\ metrics.confidence \in {Float(x) : x \in 0..1000}
          /\ InUnitRange(metrics.cognitive_load)
          /\ InUnitRange(metrics.attention_level)
          /\ InUnitRange(metrics.theta_gamma_coupling)
          /\ InUnitRange(metrics.phase_sync)
          /\ InUnitRange(metrics.focus_score)
          /\ InUnitRange(metrics.flow_probability)
    /\ clf_op = "extract" => InUnitRange(clf_features["alpha_beta_sync"])

\* C20: for state ANXIETY and features {'cognitive_load': 0.8} alone,
\* _generate_recommendations returns the one-element list of the docstring.
C20_AnxietyHighLoadExample ==
    (/\ clf_op = "recommend"
     /\ clf_state = "ANXIETY"
     /\ DOMAIN clf_features = {"cognitive_load"}
     /\ clf_features["cognitive_load"] = 800)
    => recommendations =
           <<"Cognitive load is high. Try breaking the task into smaller steps.">>

\* C14: maintain_stability deepens only in an epoch classified FLOW or
\* DEEP_FLOW with high recovery capacity, and stabilizes in every epoch
\* classified ANXIETY.
C14_ModeFollowsClassifiedState ==
    /\ stability_mode = "DEEPEN" =>
          /\ epoch_state \in {"FLOW", "DEEP_FLOW"}
          /\ stability_metrics.recovery_capacity > RecoveryThreshold
    /\ (stability_mode # "none" /\ epoch_state = "ANXIETY") =>
          stability_mode = "STABILIZE"

\* C18: no rolling history ever holds more entries than its maximum length.
RollingHistoryMax == FeatureHistoryMax

C18_HistoriesBounded ==
    /\ Len(feature_history) <= FeatureHistoryMax
    /\ Len(flow_history) <= RollingHistoryMax
    /\ Len(challenge_history) <= RollingHistoryMax

\* C15: run_pipeline survives a chunk whose processing raises: the error is
\* logged and the loop goes on, chunks are taken in arrival order with none
\* skipped, every chunk put on the stream is eventually taken, a taken chunk
\* is either in the buffer or logged as failed in process_chunk, and the
\* buffer holds only chunks whose processing completed, the newest of them
\* being the one filtered_data was computed from.
FailedInProcessChunk(id) ==
    \E i \in DOMAIN pipe_errors :
        pipe_errors[i] = [id |-> id, at |-> "process_chunk"]

InBuffer(id) == \E i \in DOMAIN buffer_data : buffer_data[i] = id

PipelineConsistent ==
    /\ pipe_taken = [i \in 1..Len(pipe_taken) |-> i]
    /\ Len(pipe_taken) + Len(pipe_stream) = pipe_put
    /\ \A i \in DOMAIN pipe_taken :
          InBuffer(pipe_taken[i]) # FailedInProcessChunk(pipe_taken[i])
    /\ \A i \in DOMAIN buffer_data :
          /\ ~FailedInProcessChunk(buffer_data[i])
          /\ \E j \in DOMAIN pipe_taken : pipe_taken[j] = buffer_data[i]
    /\ buffer_data # <<>> => filtered_data = buffer_data[Len(buffer_data)]

C15_PipelineSurvivesBadChunk ==
    /\ []PipelineConsistent
    /\ \A n \in 1..MaxPipeChunks :
          (pipe_put >= n) ~> (\E i \in DOMAIN pipe_taken : pipe_taken[i] = n)

\* A chunk failed in process_chunk, and a chunk put after it is in the buffer.
C15_Witness ==
    \E i \in DOMAIN pipe_errors, j \in DOMAIN buffer_data :
        /\ pipe_errors[i].at = "process_chunk"
        /\ buffer_data[j] > pipe_errors[i].id

\* C16: a detector is constructed only from a non-empty channel list, a
\* positive sampling rate and band cutoffs below the Nyquist frequency; with
\* any other configuration the constructor raises and leaves no detector, and
\* processing chunks on a constructed detector raises no configuration error.
ValidConfiguration(args) ==
    /\ Len(args.channels) > 0
    /\ args.sampling_rate > 0
    /\ \A band \in DOMAIN BandCutoffs :
          2 * BandCutoffs[band][2] < args.sampling_rate

C17_CouplingClamped ==
    [][(/\ audio_op' \in {"update", "flow_update"}
        /\ current_session # NoSession)
       => /\ current_session' # NoSession
          /\ 100 <= coupling_strength'
          /\ coupling_strength' <= 900]_vars

\* An update whose alpha-theta coupling sqrt(0.9 * 1.0) lies above 0.9 has
\* been applied and the session is active.
C17_Witness ==
    /\ audio_op = "update"
    /\ current_session # NoSession
    /\ current_session.alpha_response = 90
    /\ current_session.theta_response = 100
    /\ coupling_strength = 900

\* C19: a call on one engine instance changes neither the session of the
\* other instance nor the flow frequency ranges the other instance reads.
C19_InstancesIndependent ==
    [][\A e \in Engines, other \in Engines :
          (engine_op'.engine = e /\ other # e) =>
              /\ engines'[other] = engines[other]
              /\ RangesOf(other)' = RangesOf(other)]_vars

\* C21: the task slot is occupied exactly while a task object exists; a task
\* is created only when none exists; a call that raises RuntimeError changes
\* neither the slot nor the task; and a stop_processing that returns normally
\* leaves the slot empty, so that the next start_processing is accepted.
C21_SlotMatchesTask == (processing_task = "None") <=> (loop_pc = "none")

SessionPowersValid(session) ==
    /\ session.alpha_response \in 0..100
    /\ session.theta_response \in 0..100
    /\ session.beta_response \in 0..100
    /\ session.gamma_response \in 0..100

UpdateCall ==
    /\ updates' = updates + 1
    /\ audio_op' \in {"update", "update:RuntimeError", "update:ValueError"}

C22_ErrorsLeaveSessionUnchanged ==
    [][UpdateCall =>
          /\ (current_session = NoSession) <=> (audio_op' = "update:RuntimeError")
          /\ audio_op' \in {"update:RuntimeError", "update:ValueError"}
                => UNCHANGED <<current_session, coupling_strength, flow_ranges,
                               user_responses>>
          /\ audio_op' = "update"
                => /\ current_session # NoSession
                   /\ SessionPowersValid(current_session')]_vars

\* A ValueError was raised on a session that earlier updates had changed.
C22_Witness ==
    /\ audio_op = "update:ValueError"
    /\ current_session # NoSession
    /\ coupling_strength # 500

\* C25: every maintain_stability epoch appends exactly one entry to each
\* history, the metrics' flow depth and the challenge level as it was before
\* the mode is applied, and applies the one mode that this epoch's metrics
\* select: STABILIZE below the stability threshold, otherwise DEEPEN when the
\* recovery capacity exceeds 0.7, otherwise MAINTAIN.
Last(h) == h[Len(h)]

\* A step of the stability system.
StabilityEpoch == stabilityVars' # stabilityVars

C25_OneModePerEpoch ==
    [][StabilityEpoch =>
          /\ flow_history' = Append(flow_history, stability_metrics'.flow_depth)
          /\ challenge_history' = Append(challenge_history, current_challenge)
          /\ stability_mode' \in {"STABILIZE", "DEEPEN", "MAINTAIN"}
          /\ (stability_mode' = "STABILIZE")
                <=> (stability_metrics'.stability_score < stability_threshold)
          /\ (stability_mode' = "DEEPEN")
                <=> /\ stability_metrics'.stability_score >= stability_threshold
                    /\ stability_metrics'.recovery_capacity > RecoveryThreshold]_vars

\* A DEEPEN epoch after earlier STABILIZE epochs, with a recovery capacity
\* that was already high enough during those.
C25_Witness ==
    /\ stability_mode = "DEEPEN"
    /\ current_challenge < InitialChallenge
    /\ Len(flow_history) = Len(challenge_history)

\* C27: current_challenge stays within [0.3, 0.9]; an epoch changes it by at
\* most challenge_increment, never upwards in STABILIZE, never downwards in
\* DEEPEN, and not at all in MAINTAIN.
C27_ChallengeInRange ==
    current_challenge \in ChallengeMin..ChallengeMax

C27_ChallengeBounded ==
    /\ []C27_ChallengeInRange
    /\ [][StabilityEpoch =>
             /\ current_challenge' - current_challenge
                   \in (0 - challenge_increment)..challenge_increment
             /\ stability_mode' = "STABILIZE" => current_challenge' <= current_challenge
             /\ stability_mode' = "DEEPEN" => current_challenge' >= current_challenge
             /\ stability_mode' = "MAINTAIN" => current_challenge' = current_challenge]_vars

\* A STABILIZE epoch that began at the lower limit and stayed there.
C27_Witness ==
    /\ stability_mode = "STABILIZE"
    /\ Len(challenge_history) > 0
    /\ Last(challenge_history) = ChallengeMin
    /\ current_challenge = ChallengeMin

\* C26: every adaptive flow band range is a valid range within the safety
\* limits, 1.0 <= min <= max <= 40.0.
ValidRange(range) ==
    /\ 1000 <= range.min
    /\ range.min <= range.max
    /\ range.max <= 40000

C26_FlowRangesValid ==
    /\ ValidRange(flow_ranges.alpha)
    /\ ValidRange(flow_ranges.theta)
    /\ ValidRange(flow_ranges.beta)

\* C29: every started session is recorded in user_responses exactly once.
\* At most one output stream is open, and none without an active session;
\* stop() appends the active session once and clears it, and appends nothing
\* when no session is active; start() on an active session records that
\* session before replacing it.
C29_OneStreamPerSession ==
    /\ open_streams <= 1
    /\ (current_session = NoSession) => (open_streams = 0)

C29_EverySessionRecordedOnce ==
    /\ []C29_OneStreamPerSession
    /\ [][/\ stop =>
                IF current_session # NoSession
                THEN /\ user_responses' = Append(user_responses, current_session)
                     /\ current_session' = NoSession
                ELSE UNCHANGED <<user_responses, current_session>>
          /\ (start /\ current_session # NoSession) =>
                user_responses' = Append(user_responses, current_session)]_vars

\* C30: process_chunk appends the whole chunk to the sample buffer whatever
\* the mask says, samples that fail the mask included; the mask acts only on
\* the data handed to the band filters, where every failing sample is zero and
\* so adds nothing to the energy a band power is computed from.
FailingSamples(m) == {i \in 1..Len(m) : ~m[i]}

C30_MaskedSamplesStayInBuffer ==
    [][ProcessChunkSamples =>
          /\ Len(sample_buffer') = Len(sample_buffer) + 1
          /\ Len(Last(sample_buffer')) = Len(clean_mask')
          /\ clean_mask' = detect_artifacts(Last(sample_buffer'))
          /\ \A band \in Bands :
                /\ Len(band_filtered'[band].input) = Len(clean_mask')
                /\ \A i \in 1..Len(clean_mask') :
                      band_filtered'[band].input[i] =
                         IF clean_mask'[i] THEN Last(sample_buffer')[i] ELSE 0
                /\ BandPower(band_filtered'[band]).energy =
                      SumSqRange([i \in 1..Len(clean_mask') |->
                                     IF i \in FailingSamples(clean_mask') THEN 0
                                     ELSE Last(sample_buffer')[i]],
                                 1, Len(clean_mask'))]_vars

\* A chunk with a failing non-zero sample and a clean non-zero sample is in
\* the buffer as it came.
C30_Witness ==
    /\ Len(sample_buffer) > 0
    /\ \E i \in FailingSamples(clean_mask) : Last(sample_buffer)[i] # 0
    /\ \E i \in 1..Len(clean_mask) : clean_mask[i] /\ Last(sample_buffer)[i] # 0

\* C23: a provider for which the sleep, exercise, biometric or mood sync
\* returned failure is reported False in the results of sync_all_data.
C23_FailedProviderReportedFalse ==
    \A name \in DOMAIN results :
        ~sync_returned[name] => (results[name] = FALSE)

\* C24: sync_all_data visits every configured provider whatever happened to
\* the ones before it, a provider whose syncs all succeeded is reported True,
\* and the call returns, with a boolean for every configured provider.
C24_EveryProviderVisited ==
    /\ sync_pc = "running" =>
          DOMAIN results \cup {sync_pending[i] : i \in 1..Len(sync_pending)}
             = ProviderNames
    /\ sync_pc = "returned" =>
          /\ DOMAIN results = ProviderNames
          /\ \A name \in ProviderNames : results[name] \in BOOLEAN
    /\ \A name \in DOMAIN results : sync_returned[name] => (results[name] = TRUE)

C24_SyncCompletes ==
    /\ []C24_EveryProviderVisited
    /\ (sync_pc = "running") ~> (sync_pc = "returned")

\* A finished call in which the first provider's syncs failed and a later
\* provider's syncs all succeeded.
C24_Witness ==
    /\ sync_pc = "returned"
    /\ ~sync_returned[Providers[1]]
    /\ \E i \in 2..Len(Providers) : sync_returned[Providers[i]]

\* C28: at most one monitoring loop of an EEGProcessor is active at any
\* time, whatever the order of start_monitoring and stop_monitoring calls.
C28_AtMostOneLoop ==
    Cardinality(ActiveLoops(monitor_loops)) <= 1

====
